---- MODULE Spec2Model ----
(***************************************************************************)
(* graphnet: the Model base class (src/src/graphnet/models/model.py) and   *)
(* the GraphNeTDataModule exercised by src/tests/data/test_datamodule.py.  *)
(*                                                                         *)
(* Three components, each with its own variables and specification (a      *)
(* specification holds the other components' variables fixed):             *)
(*   SpecPersist  Model.save / load / save_state_dict / load_state_dict    *)
(*   SpecConfig   Model.from_config                                        *)
(*   SpecData     GraphNeTDataModule's three loader accessors              *)
(* Strings the code inspects character by character (paths, module names)  *)
(* are sequences of one-character strings.                                 *)
(***************************************************************************)
EXTENDS Integers, Sequences, FiniteSets, TLC

VARIABLES
    device,      \* persist: model -> "cpu" | "cuda", where its tensors live
    params,      \* persist: model -> (parameter name -> value), its state_dict
    dirs,        \* persist: the directories that exist (the cwd is "")
    files,       \* persist: path -> file content, NoFile when absent
    written,     \* persist: path -> what the writer held when it wrote (history)
    last,        \* persist: the last call, its arguments and its outcome
    globalsNS,   \* config: the names bound in model.py's module globals
    call,        \* config: the from_config call that just returned, or NoCall
    dm,          \* data: the data module's construction-time configuration
    loaders,     \* data: the loaders built so far, NoLoader when not built
    ret          \* data: the last accessor call and its outcome

pvars == <<device, params, dirs, files, written, last>>
cvars == <<globalsNS, call>>
dvars == <<dm, loaders, ret>>
vars == <<device, params, dirs, files, written, last, globalsNS, call, dm, loaders, ret>>

(***************************************************************************)
(* Strings as character sequences                                          *)
(***************************************************************************)
\* str.endswith
EndsWith(s, suffix) ==
    /\ Len(s) >= Len(suffix)
    /\ SubSeq(s, Len(s) - Len(suffix) + 1, Len(s)) = suffix

PthSuffix == <<".", "p", "t", "h">>

\* index of the last "/" of p, 0 when there is none
LastSlash(p) ==
    LET at == {i \in 1..Len(p) : p[i] = "/"}
    IN  IF at = {} THEN 0 ELSE CHOOSE i \in at : \A j \in at : j <= i

\* s without its trailing "/" characters
RECURSIVE RStripSlash(_)
RStripSlash(s) ==
    IF s # <<>> /\ s[Len(s)] = "/" THEN RStripSlash(SubSeq(s, 1, Len(s) - 1)) ELSE s

\* os.path.dirname (posixpath): everything up to the last "/", trailing
\* slashes removed unless the head is all slashes
Dirname(p) ==
    LET head == SubSeq(p, 1, LastSlash(p))
    IN  IF RStripSlash(head) = <<>> THEN head ELSE RStripSlash(head)

\* the directories os.makedirs(d) has to ensure: d and every ancestor of d
DirChain(d) ==
    {SubSeq(d, 1, i) : i \in {j \in 1..Len(d) : j = Len(d) \/ d[j + 1] = "/"}}

(***************************************************************************)
(* Persistence: the universe                                               *)
(***************************************************************************)
\* M is the model that is saved, M2 a freshly constructed model of the same
\* architecture
Models == {"M", "M2"}
ParamNames == {"w"}
ParamOrder == <<"w">>
MaxValue == 1
Values == 0..MaxValue
StateDicts == [ParamNames -> Values]
Devices == {"cpu", "cuda"}

\* hyperparameters and other non-tensor attributes of each instance
attrs == [m \in Models |-> IF m = "M" THEN "hparams_M" ELSE "hparams_M2"]

\* "b.pth" and "o/r/b": with the suffix in the cwd, and without it under
\* directories that do not exist at the start. Both name file locations
\* (neither is a directory of the other).
Paths ==
    { <<"b", ".", "p", "t", "h">>,
      <<"o", "/", "r", "/", "b">> }

NoFile == [kind |-> "none"]
NoObj == [kind |-> "none"]
NotWritten == [by |-> "none"]

\* the state_dict as torch.save lays it out: the (name, tensor) items of the
\* ordered mapping, in parameter order
Items(sd) == [i \in 1..Len(ParamOrder) |-> <<ParamOrder[i], sd[ParamOrder[i]]>>]

\* the mapping torch.load rebuilds from the stored items
FromItems(items) ==
    [n \in {items[i][1] : i \in DOMAIN items} |->
        LET i == CHOOSE j \in DOMAIN items : items[j][1] = n IN items[i][2]]

\* what the pickle of a whole model holds: its tensors (already on the host),
\* its attributes and its parameters
PickleModel(dev, at, sd) ==
    [kind |-> "model", device |-> dev, attrs |-> at, items |-> Items(sd)]

PickleStateDict(sd) ==
    [kind |-> "state_dict", device |-> "cpu", attrs |-> "-", items |-> Items(sd)]

\* the object torch.load returns for a file's content
Unpickle(content) ==
    IF content.kind = "model"
    THEN [kind |-> "model", device |-> content.device, attrs |-> content.attrs,
          params |-> FromItems(content.items)]
    ELSE [kind |-> "state_dict", device |-> content.device, attrs |-> "-",
          params |-> FromItems(content.items)]

\* self.cpu() that left the caller's model where it was (a copy is moved)
CpuOfCopy(dev, m) == dev

\* self.cpu(): nn.Module.cpu moves the module in place and returns it
Cpu(dev, m) == [dev EXCEPT ![m] = "cpu"]

\* only the immediate parent is made (os.mkdir), and only when its own parent exists
SaveDirsOneLevel(p, ds) ==
    IF Dirname(p) # <<>> /\ (Dirname(Dirname(p)) = <<>> \/ Dirname(Dirname(p)) \in ds)
    THEN ds \cup {Dirname(p)}
    ELSE ds

\* the directories after save's "if dirname: os.makedirs(dirname, exist_ok=True)"
SaveDirs(p, ds) ==
    IF Dirname(p) # <<>> THEN ds \cup DirChain(Dirname(p)) ELSE ds

\* torch.save opens the file for writing: its directory has to exist
CanWrite(p, ds) == Dirname(p) = <<>> \/ Dirname(p) \in ds

\* the messages of self.info in save and save_state_dict
SaveInfos(p, ok) ==
    (IF ~EndsWith(p, PthSuffix) THEN <<"use_pth_suffix">> ELSE <<>>)
        \o (IF ok THEN <<"saved">> ELSE <<>>)

\* the state_dict is dropped instead of being applied
ApplyStateDictDropped(old, sd) == old

\* nn.Module.load_state_dict: every parameter takes the value the mapping
\* gives it (old and sd have the same keys: the architectures agree)
ApplyStateDict(old, sd) == [n \in DOMAIN old |-> sd[n]]

(***************************************************************************)
(* Persistence: the operations                                             *)
(***************************************************************************)
InitPersist ==
    /\ device \in [Models -> Devices]
    /\ params \in [Models -> StateDicts]
    /\ dirs = {}
    /\ files = [p \in Paths |-> NoFile]
    /\ written = [p \in Paths |-> NotWritten]
    /\ last = [op |-> "none", model |-> "-", arg |-> [kind |-> "none"], ok |-> TRUE,
               dev0 |-> "-", before |-> <<>>, read |-> FALSE, infos |-> <<>>,
               obj |-> NoObj]
    /\ globalsNS = {}
    /\ call = <<>>
    /\ dm = <<>>
    /\ loaders = <<>>
    /\ ret = <<>>

\* Model.save(self, path)
Save(m, p) ==
    LET ds == SaveDirs(p, dirs)
        ok == CanWrite(p, ds)
    IN  /\ dirs' = ds
        /\ device' = Cpu(device, m)
        /\ files' = IF ok THEN [files EXCEPT ![p] = PickleModel(Cpu(device, m)[m], attrs[m], params[m])]
                    ELSE files
        /\ written' = IF ok
                      THEN [written EXCEPT ![p] = [by |-> "save", model |-> m,
                                                   params |-> params[m], attrs |-> attrs[m]]]
                      ELSE written
        /\ last' = [op |-> "save", model |-> m, arg |-> [kind |-> "path", path |-> p],
                    ok |-> ok, dev0 |-> device[m], before |-> <<>>, read |-> FALSE,
                    infos |-> SaveInfos(p, ok), obj |-> NoObj]
        /\ UNCHANGED <<params, cvars, dvars>>

\* Model.load(cls, path)
Load(p) ==
    /\ last' = [op |-> "load", model |-> "-", arg |-> [kind |-> "path", path |-> p],
                ok |-> files[p] # NoFile, dev0 |-> "-", before |-> <<>>, read |-> TRUE,
                infos |-> <<>>,
                obj |-> IF files[p] # NoFile THEN Unpickle(files[p]) ELSE NoObj]
    /\ UNCHANGED <<device, params, dirs, files, written, cvars, dvars>>

\* Model.save_state_dict(self, path)
SaveStateDict(m, p) ==
    LET ok == CanWrite(p, dirs)
    IN  /\ device' = Cpu(device, m)
        /\ files' = IF ok THEN [files EXCEPT ![p] = PickleStateDict(params[m])] ELSE files
        /\ written' = IF ok
                      THEN [written EXCEPT ![p] = [by |-> "save_state_dict", model |-> m,
                                                   params |-> params[m], attrs |-> "-"]]
                      ELSE written
        /\ last' = [op |-> "save_state_dict", model |-> m,
                    arg |-> [kind |-> "path", path |-> p],
                    ok |-> ok, dev0 |-> device[m], before |-> <<>>, read |-> FALSE,
                    infos |-> SaveInfos(p, ok), obj |-> NoObj]
        /\ UNCHANGED <<params, dirs, cvars, dvars>>

\* Model.load_state_dict(self, path) with a str: torch.load(path), then apply.
\* A file that is absent, or that holds a whole model instead of a mapping,
\* makes the call raise with the parameters untouched.
LoadStateDictPath(m, p) ==
    LET found == files[p] # NoFile
        obj == IF found THEN Unpickle(files[p]) ELSE NoObj
        ok == found /\ obj.kind = "state_dict"
    IN  /\ params' = IF ok THEN [params EXCEPT ![m] = ApplyStateDict(params[m], obj.params)]
                     ELSE params
        /\ last' = [op |-> "load_state_dict", model |-> m,
                    arg |-> [kind |-> "path", path |-> p],
                    ok |-> ok, dev0 |-> "-", before |-> params[m], read |-> TRUE,
                    infos |-> <<>>, obj |-> NoObj]
        /\ UNCHANGED <<device, dirs, files, written, cvars, dvars>>

\* Model.load_state_dict(self, path) with a mapping: applied as it is
LoadStateDictMapping(m, sd) ==
    /\ params' = [params EXCEPT ![m] = ApplyStateDict(params[m], sd)]
    /\ last' = [op |-> "load_state_dict", model |-> m,
                arg |-> [kind |-> "mapping", sd |-> sd],
                ok |-> TRUE, dev0 |-> "-", before |-> params[m], read |-> FALSE,
                infos |-> <<>>, obj |-> NoObj]
    /\ UNCHANGED <<device, dirs, files, written, cvars, dvars>>

SaveStep == \E m \in Models, p \in Paths : Save(m, p)
LoadStep == \E p \in Paths : Load(p)
SaveStateDictStep == \E m \in Models, p \in Paths : SaveStateDict(m, p)
LoadStateDictPathStep == \E m \in Models, p \in Paths : LoadStateDictPath(m, p)
LoadStateDictMappingStep == \E m \in Models, sd \in StateDicts : LoadStateDictMapping(m, sd)

NextPersist ==
    \/ SaveStep
    \/ LoadStep
    \/ SaveStateDictStep
    \/ LoadStateDictPathStep
    \/ LoadStateDictMappingStep

(***************************************************************************)
(* Persistence: the claims                                                 *)
(***************************************************************************)
IsSave == last.op = "save"
IsSaveStateDict == last.op = "save_state_dict"
IsLoad == last.op = "load"
IsLoadStateDict == last.op = "load_state_dict"

\* C5: a load_state_dict from a path that save_state_dict of a model wrote
\* succeeds and leaves the target with exactly the parameters the writer had;
\* a load_state_dict of an in-memory mapping reads no file and leaves the
\* target with exactly that mapping, which is what loading a file holding
\* that mapping gives.
StateDictRoundTrip ==
    IsLoadStateDict =>
        /\ (last.arg.kind = "path" /\ written[last.arg.path].by = "save_state_dict") =>
              /\ last.ok
              /\ params[last.model] = written[last.arg.path].params
        /\ last.arg.kind = "mapping" =>
              /\ last.ok
              /\ ~last.read
              /\ params[last.model] = last.arg.sd
              /\ params[last.model] = Unpickle(PickleStateDict(last.arg.sd)).params

\* C5 witness: M2 took M's saved parameters from a file, and they differ
\* from the ones M2 had
StateDictRoundTripWitness ==
    /\ IsLoadStateDict /\ last.ok /\ last.arg.kind = "path"
    /\ last.model = "M2"
    /\ written[last.arg.path].by = "save_state_dict"
    /\ written[last.arg.path].model = "M"
    /\ last.before # params["M2"]

\* C6: every save completes, logging the suffix advice exactly when the path
\* lacks .pth and leaving the path's directories in place; and a load of a
\* path that save wrote returns a model with the parameters the saved model had.
SaveLoadRoundTrip ==
    /\ IsSave =>
          /\ last.ok
          /\ Dirname(last.arg.path) # <<>> => Dirname(last.arg.path) \in dirs
          /\ ("use_pth_suffix" \in {last.infos[i] : i \in DOMAIN last.infos})
                <=> ~EndsWith(last.arg.path, PthSuffix)
    /\ (IsLoad /\ written[last.arg.path].by = "save") =>
          /\ last.ok
          /\ last.obj.kind = "model"
          /\ last.obj.params = written[last.arg.path].params
          /\ last.obj.attrs = written[last.arg.path].attrs

\* C6 witness: a model was loaded back from a path without the suffix whose
\* directories save had to create
SaveLoadRoundTripWitness ==
    /\ IsLoad /\ last.ok
    /\ written[last.arg.path].by = "save"
    /\ ~EndsWith(last.arg.path, PthSuffix)
    /\ Dirname(last.arg.path) # <<>>
    /\ last.obj.kind = "model"

\* C10: a step of save or save_state_dict leaves the caller's model on the
\* cpu, leaves every other model where it was and changes no parameter.
SaveMovesModelToCpu ==
    [][(SaveStep \/ SaveStateDictStep) =>
          /\ device'[last'.model] = "cpu"
          /\ \A m \in Models \ {last'.model} : device'[m] = device[m]
          /\ params' = params]_vars

\* C10 witness: a model that was on cuda has been saved and is on the cpu
SaveMovesModelToCpuWitness ==
    /\ IsSave \/ IsSaveStateDict
    /\ last.dev0 = "cuda"
    /\ device[last.model] = "cpu"

(***************************************************************************)
(* from_config: the universe                                               *)
(***************************************************************************)
AsciiLetters ==
    { "a", "b", "c", "d", "e", "f", "g", "h", "i", "j", "k", "l", "m",
      "n", "o", "p", "q", "r", "s", "t", "u", "v", "w", "x", "y", "z",
      "A", "B", "C", "D", "E", "F", "G", "H", "I", "J", "K", "L", "M",
      "N", "O", "P", "Q", "R", "S", "T", "U", "V", "W", "X", "Y", "Z" }

\* the class [a-zA-Z_]
IsWordChar(c) == c \in AsciiLetters \cup {"_"}

\* a non-empty name of ASCII letters and underscores only
IsIdentifier(s) == s # <<>> /\ \A i \in DOMAIN s : IsWordChar(s[i])

\* re.match("^[a-zA-Z_]+$", module) is not None. In Python's re, without
\* re.MULTILINE, $ matches at the end of the string and also just before a
\* newline that ends the string.
ReMatch(s) ==
    \/ IsIdentifier(s)
    \/ s # <<>> /\ s[Len(s)] = "\n" /\ IsIdentifier(SubSeq(s, 1, Len(s) - 1))

Torch == <<"t", "o", "r", "c", "h">>

\* the names "import ..." at the top of model.py binds that matter here
ModuleGlobals == {Torch, <<"r", "e">>, <<"o", "s">>}

\* the modules an import statement finds in this environment
Importable == ModuleGlobals \cup {<<"i", "o">>}

\* "re" (bound already), "io" (importable, not bound), "_x" (not installed),
\* and names the pattern is there to stop: "io\n", "i0", "i.o", ""
ModuleNames ==
    { <<"r", "e">>, <<"i", "o">>, <<"_", "x">>,
      <<"i", "o", "\n">>, <<"i", "0">>, <<"i", ".", "o">>, <<>> }

\* the longest load_modules list
MaxModules == 2

RECURSIVE SeqsUpTo(_, _)
\* the sequences over S of length at most n
SeqsUpTo(S, n) ==
    IF n = 0 THEN {<<>>}
    ELSE LET shorter == SeqsUpTo(S, n - 1)
         IN  shorter \cup {Append(q, x) : q \in {r \in shorter : Len(r) = n - 1}, x \in S}

\* load_modules: None (the default) or a list of names
NoModules == [none |-> TRUE, names |-> <<>>]
LoadModulesArgs ==
    {NoModules} \cup {[none |-> FALSE, names |-> q] : q \in SeqsUpTo(ModuleNames, MaxModules)}

\* the name the statement "import <module>" binds: the statement ends at a newline
ImportTarget(module) ==
    IF module # <<>> /\ module[Len(module)] = "\n"
    THEN SubSeq(module, 1, Len(module) - 1)
    ELSE module

\* get_all_grapnet_classes(...): class name -> class
Registry == {"StandardModel"}
ClassNames == Registry \cup {"NoSuchModel"}

\* the arguments of one ModelConfig, and the configs nested in a config
MaxArguments == 2
MaxNesting == 1

\* an argument value that is no config: a primitive, or a "!lambda ..." string
Primitive == [kind |-> "primitive"]
LambdaExpr == [kind |-> "lambda"]

RECURSIVE ConfigsOfDepth(_)
\* the ModelConfigs with at most d levels of nested ModelConfigs; arguments
\* is the mapping's values in insertion order
ConfigsOfDepth(d) ==
    LET nested == IF d = 0 THEN {}
                  ELSE {[kind |-> "config", cfg |-> c] : c \in ConfigsOfDepth(d - 1)}
    IN  [class_name : ClassNames,
         arguments : SeqsUpTo({Primitive, LambdaExpr} \cup nested, MaxArguments)]

ModelConfigs == ConfigsOfDepth(MaxNesting)

(***************************************************************************)
(* from_config: the operation                                              *)
(***************************************************************************)
RECURSIVE LoadModulesFrom(_, _, _)
\* the loop "for module in load_modules" from its i-th name on; acc holds the
\* namespace so far, the modules handed to exec so far, and the error raised
LoadModulesFrom(mods, i, acc) ==
    IF i > Len(mods) \/ acc.err # "none" THEN acc
    ELSE LET module == mods[i]
         IN  IF ~ReMatch(module)
             THEN [acc EXCEPT !.err = "AssertionError"]
             ELSE IF module \in acc.ns
             THEN LoadModulesFrom(mods, i + 1, acc)
             ELSE IF ImportTarget(module) \notin Importable
             THEN [acc EXCEPT !.err = "ModuleNotFoundError", !.execd = Append(@, module)]
             ELSE LoadModulesFrom(mods, i + 1,
                      [acc EXCEPT !.ns = @ \cup {ImportTarget(module)},
                                  !.execd = Append(@, module)])

NoValue == [kind |-> "none"]
Callable == [kind |-> "callable"]

RECURSIVE Deserialise(_, _)
RECURSIVE TraverseFrom(_, _, _, _)
RECURSIVE Construct(_, _)

\* ModelConfig._deserialise(obj, trust): a nested ModelConfig is built with
\* Model.from_config(obj, trust=trust), a lambda expression is evaluated when
\* trusted and raises ValueError otherwise, anything else is returned as it is.
\* built lists the objects the call has created, in order.
Deserialise(obj, trust) ==
    IF obj.kind = "config" THEN Construct(obj.cfg, trust)
    ELSE IF obj.kind = "lambda"
    THEN IF trust
         THEN [err |-> "none", key |-> "-", built |-> <<"<lambda>">>, value |-> Callable]
         ELSE [err |-> "ValueError", key |-> "-", built |-> <<>>, value |-> NoValue]
    ELSE [err |-> "none", key |-> "-", built |-> <<>>, value |-> obj]

\* traverse_and_apply(arguments, _deserialise, {"trust": trust}) from the i-th
\* value on: the values are visited in the mapping's order, and the first
\* error ends the traversal
TraverseFrom(args, trust, i, acc) ==
    IF i > Len(args) \/ acc.err # "none" THEN acc
    ELSE LET d == Deserialise(args[i], trust)
         IN  TraverseFrom(args, trust, i + 1,
                 [err |-> d.err, key |-> d.key, built |-> acc.built \o d.built,
                  values |-> IF d.err = "none" THEN Append(acc.values, d.value)
                             ELSE acc.values])

\* from_config from "Parse potential ModelConfig arguments" on: the arguments
\* are deserialised, then the class is looked up and called
Construct(cfg, trust) ==
    LET r == TraverseFrom(cfg.arguments, trust, 1,
                 [err |-> "none", key |-> "-", built |-> <<>>, values |-> <<>>])
    IN  IF r.err # "none"
        THEN [err |-> r.err, key |-> r.key, built |-> r.built, value |-> NoValue]
        ELSE IF cfg.class_name \notin Registry
        THEN [err |-> "KeyError", key |-> cfg.class_name, built |-> r.built,
              value |-> NoValue]
        ELSE [err |-> "none", key |-> "-",
              built |-> Append(r.built, cfg.class_name),
              value |-> [kind |-> "object", class_name |-> cfg.class_name,
                         attributes |-> r.values]]

NoCall == [state |-> "idle"]

InitConfig ==
    /\ globalsNS = ModuleGlobals
    /\ call = NoCall
    /\ device = [m \in Models |-> "cpu"]
    /\ params = [m \in Models |-> [n \in ParamNames |-> 0]]
    /\ dirs = {}
    /\ files = [p \in Paths |-> NoFile]
    /\ written = [p \in Paths |-> NotWritten]
    /\ last = <<>>
    /\ dm = <<>>
    /\ loaders = <<>>
    /\ ret = <<>>

\* Model.from_config(source, trust, load_modules), with source a ModelConfig
FromConfig(source, trust, load_modules) ==
    LET mods == IF load_modules.none THEN <<Torch>> ELSE load_modules.names
        loaded == LoadModulesFrom(mods, 1,
                      [err |-> "none", ns |-> globalsNS, execd |-> <<>>])
        made == IF loaded.err = "none" THEN Construct(source, trust)
                ELSE [err |-> loaded.err, key |-> "-", built |-> <<>>, value |-> NoValue]
    IN  /\ globalsNS' = loaded.ns
        /\ call' = [state |-> "returned", source |-> source, trust |-> trust,
                    load_modules |-> load_modules, globals0 |-> globalsNS,
                    outcome |-> IF made.err = "none" THEN "ok" ELSE made.err,
                    key |-> made.key, execd |-> loaded.execd,
                    constructed |-> made.built, result |-> made.value]
        /\ UNCHANGED <<pvars, dvars>>

\* the caller takes the model, or the exception, of the call
Return ==
    /\ call # NoCall
    /\ call' = NoCall
    /\ UNCHANGED <<globalsNS, pvars, dvars>>

FromConfigStep ==
    /\ call = NoCall
    /\ \E source \in ModelConfigs, trust \in BOOLEAN, load_modules \in LoadModulesArgs :
          FromConfig(source, trust, load_modules)

NextConfig ==
    \/ FromConfigStep
    \/ Return

(***************************************************************************)
(* from_config: the claims                                                 *)
(***************************************************************************)
RECURSIVE HasLambda(_)
\* a lambda expression among the arguments of cfg, at any depth
HasLambda(cfg) ==
    \E i \in DOMAIN cfg.arguments :
        \/ cfg.arguments[i].kind = "lambda"
        \/ cfg.arguments[i].kind = "config" /\ HasLambda(cfg.arguments[i].cfg)

RECURSIVE NestedRegistered(_)
\* every config nested in cfg names a registered class
NestedRegistered(cfg) ==
    \A i \in DOMAIN cfg.arguments :
        cfg.arguments[i].kind = "config" =>
            /\ cfg.arguments[i].cfg.class_name \in Registry
            /\ NestedRegistered(cfg.arguments[i].cfg)

Returned == call # NoCall

\* load_modules of the call holds only importable, well-formed names
CleanModules ==
    call.load_modules.none \/
    \A i \in DOMAIN call.load_modules.names :
        /\ IsIdentifier(call.load_modules.names[i])
        /\ call.load_modules.names[i] \in Importable

\* C1: an untrusted call on a config that holds a lambda expression raises
\* with no object constructed; the trusted call on the same config (its
\* classes registered, its modules clean) returns a model whose attribute
\* for every lambda argument is callable.
UntrustedLambdaRaisesFirst ==
    (Returned /\ HasLambda(call.source)) =>
        /\ ~call.trust => (call.outcome # "ok" /\ call.constructed = <<>>)
        /\ (call.trust /\ CleanModules /\ call.source.class_name \in Registry
                /\ NestedRegistered(call.source)) =>
              /\ call.outcome = "ok"
              /\ \A i \in DOMAIN call.source.arguments :
                    call.source.arguments[i].kind = "lambda"
                        => call.result.attributes[i] = Callable

\* C2: a call whose class_name is not registered (nothing else wrong with
\* it) raises KeyError naming the class, with no argument deserialised into
\* an object and no module imported.
UnknownClassRaisesFirst ==
    (/\ Returned
     /\ call.source.class_name \notin Registry
     /\ CleanModules
     /\ NestedRegistered(call.source)
     /\ (call.trust \/ ~HasLambda(call.source))) =>
        /\ call.outcome = "KeyError"
        /\ call.key = call.source.class_name
        /\ call.constructed = <<>>
        /\ call.execd = <<>>

\* C8: only identifiers reach the import statement, and a load_modules list
\* that holds anything else makes the call raise.
OnlyIdentifiersImported ==
    Returned =>
        /\ \A i \in DOMAIN call.execd : IsIdentifier(call.execd[i])
        /\ (~call.load_modules.none /\
            \E i \in DOMAIN call.load_modules.names :
                ~IsIdentifier(call.load_modules.names[i])) => call.outcome # "ok"

\* C9: a call that raises on a malformed module name leaves the module
\* globals as they were before the call.
MalformedModuleLeavesGlobals ==
    (Returned /\ call.outcome = "AssertionError") => globalsNS = call.globals0

(***************************************************************************)
(* GraphNeTDataModule: the universe                                        *)
(***************************************************************************)
\* the events of the store the dataset reads, by event id
NumEvents == 3
Events == 1..NumEvents

\* batch sizes a loader can be given
MaxBatchSize == 2
BatchSizes == 1..MaxBatchSize

\* a selection is a list of event ids; None is NoSelection
NoSelection == [given |-> FALSE, ids |-> <<>>]

\* the ids of S in ascending order
AsSelection(S) ==
    [given |-> TRUE,
     ids |-> CHOOSE q \in [1..Cardinality(S) -> S] :
                 \A i, j \in 1..Cardinality(S) : i < j => q[i] < q[j]]

NoLoader == [built |-> FALSE]

\* the ids train and validation share out: the selection, or every event
\* of the store when no selection was given
CombinedIds(selection) ==
    IF selection.given THEN selection.ids ELSE AsSelection(Events).ids

\* the validation set starts one id early, on the last training id
ValIdsOverlapping(ids, k) == SubSeq(ids, IF k = 0 THEN 1 ELSE k, Len(ids))

\* the split of the combined ids at position k: the first k train, the rest validate
TrainIds(ids, k) == SubSeq(ids, 1, k)
ValIds(ids, k) == SubSeq(ids, k + 1, Len(ids))

\* the validation loader takes over the training batch size
InheritedValBatchSizes(train_batch_size) == {train_batch_size}

\* the batch sizes the validation loader can get when no validation kwargs
\* were given: a default that is not the training loader's
DefaultValBatchSizes(train_batch_size) == BatchSizes \ {train_batch_size}

\* a loader over every event of the store is handed out
TestLoaderOverStore(test_selection) ==
    [built |-> TRUE, dataset |-> AsSelection(Events).ids, batch_size |-> 1,
     sampler |-> "sequential"]

\* the test loader: over the test selection, and none without one
TestLoader(test_selection) ==
    IF test_selection.given
    THEN [built |-> TRUE, dataset |-> test_selection.ids, batch_size |-> 1,
          sampler |-> "sequential"]
    ELSE NoLoader

(***************************************************************************)
(* GraphNeTDataModule: construction and the accessors                      *)
(***************************************************************************)
\* GraphNeTDataModule(dataset_reference, dataset_args, selection,
\* test_selection, train_dataloader_kwargs, validation_dataloader_kwargs)
InitData ==
    /\ \E S \in SUBSET Events, T \in SUBSET Events,
          hasS \in BOOLEAN, hasT \in BOOLEAN,
          train_bs \in BatchSizes, hasVal \in BOOLEAN :
          /\ S \cap T = {}
          /\ ~hasS => S = {}
          /\ ~hasT => T = {}
          /\ LET selection == IF hasS THEN AsSelection(S) ELSE NoSelection
                 test_selection == IF hasT THEN AsSelection(T) ELSE NoSelection
             IN  \E k \in 0..Len(CombinedIds(selection)),
                    val_bs \in IF hasVal THEN BatchSizes
                               ELSE DefaultValBatchSizes(train_bs) :
                     dm = [selection |-> selection,
                           test_selection |-> test_selection,
                           split |-> k,
                           train_kwargs |-> [batch_size |-> train_bs, shuffle |-> TRUE],
                           val_kwargs_given |-> hasVal,
                           val_kwargs |-> [batch_size |-> val_bs, shuffle |-> FALSE]]
    /\ loaders = [train |-> NoLoader, val |-> NoLoader, test |-> NoLoader]
    /\ ret = [op |-> "none", ok |-> TRUE, loader |-> NoLoader]
    /\ device = [m \in Models |-> "cpu"]
    /\ params = [m \in Models |-> [n \in ParamNames |-> 0]]
    /\ dirs = {}
    /\ files = [p \in Paths |-> NoFile]
    /\ written = [p \in Paths |-> NotWritten]
    /\ last = <<>>
    /\ globalsNS = {}
    /\ call = <<>>

\* DataLoader(dataset, **kwargs): a shuffling loader samples at random
MakeLoader(ids, kwargs) ==
    [built |-> TRUE, dataset |-> ids, batch_size |-> kwargs.batch_size,
     sampler |-> IF kwargs.shuffle THEN "random" ELSE "sequential"]

\* train_dataloader(): the cached loader, or one built over the training ids
TrainDataloader ==
    LET loader == IF loaders.train.built THEN loaders.train
                  ELSE MakeLoader(TrainIds(CombinedIds(dm.selection), dm.split),
                                  dm.train_kwargs)
    IN  /\ loaders' = [loaders EXCEPT !.train = loader]
        /\ ret' = [op |-> "train_dataloader", ok |-> TRUE, loader |-> loader]
        /\ UNCHANGED <<dm, pvars, cvars>>

\* val_dataloader(): the cached loader, or one built over the validation ids
ValDataloader ==
    LET loader == IF loaders.val.built THEN loaders.val
                  ELSE MakeLoader(ValIds(CombinedIds(dm.selection), dm.split),
                                  dm.val_kwargs)
    IN  /\ loaders' = [loaders EXCEPT !.val = loader]
        /\ ret' = [op |-> "val_dataloader", ok |-> TRUE, loader |-> loader]
        /\ UNCHANGED <<dm, pvars, cvars>>

\* test_dataloader(): the cached loader, or one built over the test
\* selection; it raises when there is no loader to hand out
TestDataloader ==
    LET loader == IF loaders.test.built THEN loaders.test
                  ELSE TestLoader(dm.test_selection)
    IN  /\ loaders' = [loaders EXCEPT !.test = loader]
        /\ ret' = [op |-> "test_dataloader", ok |-> loader.built, loader |-> loader]
        /\ UNCHANGED <<dm, pvars, cvars>>

NextData ==
    \/ TrainDataloader
    \/ ValDataloader
    \/ TestDataloader

(***************************************************************************)
(* GraphNeTDataModule: the claims                                          *)
(***************************************************************************)
\* C3: without a test selection no test loader ever exists, and every call
\* of test_dataloader() fails, whatever was called before.
NoTestSelectionNoTestLoader ==
    ~dm.test_selection.given =>
        /\ ~loaders.test.built
        /\ ret.op = "test_dataloader" => (~ret.ok /\ ~ret.loader.built)

\* C3 witness: test_dataloader() was called, after the two other loaders
\* were built, on a module without a test selection
NoTestSelectionNoTestLoaderWitness ==
    /\ ~dm.test_selection.given
    /\ ret.op = "test_dataloader"
    /\ loaders.train.built /\ loaders.val.built

\* C4: with a combined selection S and a test selection T, the train and
\* validation datasets together hold len(S) events, and the test dataset
\* holds len(T), in whatever order the loaders were built.
SelectionsPartitioned ==
    (dm.selection.given /\ dm.test_selection.given) =>
        /\ (loaders.train.built /\ loaders.val.built) =>
              Len(loaders.train.dataset) + Len(loaders.val.dataset)
                  = Len(dm.selection.ids)
        /\ loaders.test.built => Len(loaders.test.dataset) = Len(dm.test_selection.ids)

\* C4 witness: the three loaders are built, the training loader last, and
\* none of the three datasets is empty
SelectionsPartitionedWitness ==
    /\ dm.selection.given /\ dm.test_selection.given
    /\ loaders.train.built /\ loaders.val.built /\ loaders.test.built
    /\ ret.op = "train_dataloader"
    /\ loaders.train.dataset # <<>> /\ loaders.val.dataset # <<>>
    /\ loaders.test.dataset # <<>>

SpecPersist == InitPersist /\ [][NextPersist]_vars
SpecConfig == InitConfig /\ [][NextConfig]_vars
SpecData == InitData /\ [][NextData]_vars
====
